---------------------------- MODULE Spec2Model ----------------------------
(***************************************************************************)
(* Streaming audio segmentation and incremental transcription              *)
(* (jayant-yadav/TruthSeeker, backend/app).                                *)
(*                                                                         *)
(* SpecBuf  : transcription/utils.py AudioBuffer, one step per loop        *)
(*            iteration of add_samples.                                    *)
(* Spec     : one /stream connection (main.py websocket_endpoint) over the *)
(*            Local-Model or Remote-Batch adapter.                         *)
(* SpecConc : two /stream connections, a /transcribe/file request and      *)
(*            POST /config, interleaved at the handlers' await points.     *)
(* SpecGoogle : one session of the streaming adapter                       *)
(*            (transcription/google_speech.py): the caller, the worker     *)
(*            thread and the request generator, one step per access to     *)
(*            the state they share.                                        *)
(*                                                                         *)
(* A sample is identified by its position in the stream that was fed       *)
(* (1, 2, 3, ...): the buffer code never looks at a sample's value, only   *)
(* at where it is.                                                         *)
(***************************************************************************)
EXTENDS Integers, Sequences, FiniteSets, TLC

\* ------------------------------------------------------------------ bounds
MaxChunkMs == 3
MaxAudioHalfMs == 12
MaxLoop == 16
MaxFlush == 2
MaxEvents == 4
MaxConcEvents == 3
MaxGCalls == 3
MaxResponses == 2

\* ------------------------------------------------------- program constants
WHISPER_SAMPLE_RATE_HZ == 16000

\* The rate main.py passes, and a low rate at which one message unit is one
\* sample, so that every alignment of messages and windows occurs.
SampleRates == {2000, WHISPER_SAMPLE_RATE_HZ}

VARIABLES
    \* --- utils.AudioBuffer fields
    chunk_size_ms, overlap_ms, sample_rate, samples_per_chunk, overlap_samples,
    buffer,
    \* --- add_samples in progress: its local list and its position
    complete_chunks, buf_pc,
    \* --- history: samples fed so far, windows returned so far, flush calls
    fed, returned, flushes

VARIABLES
    \* --- main.py globals
    active_config, transcriber, transcriber_lock,
    \* every adapter instance ever constructed, by identity (1, 2, ...)
    adapters,
    \* --- websocket_endpoint, per connection: position, locals
    conn_pc, use_direct_streaming, audio_buffer, pending,
    \* the messages sent to the client of the connection
    sent,
    \* the handler that is running and has not reached an await yet
    loop_owner,
    \* --- transcribe_file / update_config requests
    file_pc,
    \* --- history, per session: samples received, end-of-stream messages
    \* handled, whether a chunk has failed, the most recent adapter call
    conn_fed, eos, failed, last_call,
    \* per session: the adapter start_stream was called on when the session
    \* began and the one stop_stream was called on when it ended (0: none)
    stream_on,
    \* the connections and messages the clients may still produce
    budget

VARIABLES
    \* --- GoogleSpeechTranscriber fields
    is_streaming, audio_queue, interim_result, final_result,
    \* the thread of _streaming_thread_func: its position and, while it
    \* handles a final response, the transcript in hand
    streaming_thread,
    \* the generator _audio_generator, run by the client library
    generator,
    \* --- the caller (event loop): the call in progress, its position and
    \* its local current_text
    g_call, g_pc, g_current_text,
    \* --- history: the result of the last call that returned, the windows
    \* enqueued, the final transcripts the worker has taken up, the texts of
    \* the worker's states during the call in progress, calls and responses
    \* still to come
    g_result, g_enqueued, g_finals, g_snapshots, g_calls, g_responses

bufVars == <<chunk_size_ms, overlap_ms, sample_rate, samples_per_chunk,
             overlap_samples, buffer, complete_chunks, buf_pc, fed, returned,
             flushes>>

sessVars == <<active_config, transcriber, transcriber_lock, adapters, conn_pc,
              use_direct_streaming, audio_buffer, pending, sent, loop_owner,
              file_pc, conn_fed, eos, failed, last_call, stream_on, budget>>

gVars == <<is_streaming, audio_queue, interim_result, final_result,
           streaming_thread, generator, g_call, g_pc, g_current_text,
           g_result, g_enqueued, g_finals, g_snapshots, g_calls, g_responses>>

vars == <<bufVars, sessVars, gVars>>

\* ------------------------------------------------------------ pure helpers
Min(a, b) == IF a <= b THEN a ELSE b
Max(a, b) == IF a >= b THEN a ELSE b

\* int((ms / 1000) * sample_rate): the product of the quotient, truncated.
\* (Exact in double precision for ms <= 1000, which covers every ms here.)
MsToSamples(ms, rate) == (ms * rate) \div 1000

\* Python s[k:] (k may be negative or beyond the end).
PySliceFrom(s, k) ==
    LET n == Len(s)
        start == IF k < 0 THEN Max(n + k, 0) ELSE Min(k, n)
    IN SubSeq(s, start + 1, n)

\* Python s[:k] for k >= 0.
PySliceTo(s, k) == SubSeq(s, 1, Min(k, Len(s)))

\* The next n samples of the stream, after `done` samples were fed.
NewSamples(done, n) == [i \in 1..n |-> done + i]

\* -------------------------------------------------- AudioBuffer (utils.py)
\* `min(overlap_ms, chunk_size_ms)`
ClampOverlap(req_overlap_ms, chunk_ms) == Min(req_overlap_ms, chunk_ms)

\* `while len(self.buffer) >= self.samples_per_chunk`
LoopCondStrict(len, spc) == len > spc
LoopCond(len, spc) == len >= spc

\* `self.buffer[self.samples_per_chunk - self.overlap_samples :]`
KeepFromSignError(spc, ov) == spc + ov
KeepFromDouble(spc, ov) == spc - 2 * ov
KeepFrom(spc, ov) == spc - ov

\* `np.array(self.buffer[: self.samples_per_chunk])`
ChunkOfShort(buf, spc) == PySliceTo(buf, spc - 1)
ChunkOf(buf, spc) == PySliceTo(buf, spc)

\* Messages carry a whole number of half milliseconds of audio.
FeedUnit(rate) == rate \div 2000
MaxFed(rate) == MaxAudioHalfMs * FeedUnit(rate)

BufInit ==
    /\ chunk_size_ms \in 1..MaxChunkMs
    /\ sample_rate \in SampleRates
    /\ \E req \in 0..(MaxChunkMs + 1) :
          overlap_ms = ClampOverlap(req, chunk_size_ms)
    /\ samples_per_chunk = MsToSamples(chunk_size_ms, sample_rate)
    /\ overlap_samples = MsToSamples(overlap_ms, sample_rate)
    /\ buffer = <<>>
    /\ complete_chunks = <<>>
    /\ buf_pc = "idle"
    /\ fed = 0
    /\ returned = <<>>
    /\ flushes = 0

\* add_samples, lines 41-51: extend the buffer, start with no chunks.
add_samples_extend ==
    /\ buf_pc = "idle"
    /\ \E k \in 1..MaxAudioHalfMs :
          LET n == k * FeedUnit(sample_rate) IN
          /\ fed + n <= MaxFed(sample_rate)
          /\ buffer' = buffer \o NewSamples(fed, n)
          /\ fed' = fed + n
    /\ complete_chunks' = <<>>
    /\ buf_pc' = "loop"
    /\ UNCHANGED <<chunk_size_ms, overlap_ms, sample_rate, samples_per_chunk,
                   overlap_samples, returned, flushes>>
    /\ UNCHANGED <<sessVars, gVars>>

\* add_samples, lines 52-56: one iteration of the while loop.
add_samples_emit ==
    /\ buf_pc = "loop"
    /\ LoopCond(Len(buffer), samples_per_chunk)
    /\ Len(complete_chunks) < MaxLoop
    /\ complete_chunks' = Append(complete_chunks, ChunkOf(buffer, samples_per_chunk))
    /\ buffer' = PySliceFrom(buffer, KeepFrom(samples_per_chunk, overlap_samples))
    /\ UNCHANGED <<chunk_size_ms, overlap_ms, sample_rate, samples_per_chunk,
                   overlap_samples, buf_pc, fed, returned, flushes>>
    /\ UNCHANGED <<sessVars, gVars>>

\* add_samples, line 58: the loop condition is false, return the chunks.
add_samples_return ==
    /\ buf_pc = "loop"
    /\ ~LoopCond(Len(buffer), samples_per_chunk)
    /\ returned' = returned \o
          [i \in 1..Len(complete_chunks) |->
              [kind |-> "chunk", samples |-> complete_chunks[i]]]
    /\ complete_chunks' = <<>>
    /\ buf_pc' = "idle"
    /\ UNCHANGED <<chunk_size_ms, overlap_ms, sample_rate, samples_per_chunk,
                   overlap_samples, buffer, fed, flushes>>
    /\ UNCHANGED <<sessVars, gVars>>

\* `self.buffer = []` (line 66; in the empty case the buffer is left empty).
BufferKept(buf) == buf
BufferCleared(buf) == <<>>

\* get_remaining_samples, lines 60-67 (the empty case returns an empty array).
get_remaining_samples ==
    /\ buf_pc = "idle"
    /\ flushes < MaxFlush
    /\ returned' = Append(returned, [kind |-> "remaining", samples |-> buffer])
    /\ buffer' = BufferCleared(buffer)
    /\ flushes' = flushes + 1
    /\ UNCHANGED <<chunk_size_ms, overlap_ms, sample_rate, samples_per_chunk,
                   overlap_samples, complete_chunks, buf_pc, fed>>
    /\ UNCHANGED <<sessVars, gVars>>

BufNext ==
    \/ add_samples_extend
    \/ add_samples_emit
    \/ add_samples_return
    \/ get_remaining_samples

\* ------------------------------------------------------------------ text
\* A text is a sequence of one-character strings.
EmptyText == <<>>
SP == <<" ">>

RECURSIVE LStrip(_)
LStrip(s) == IF s # <<>> /\ Head(s) = " " THEN LStrip(Tail(s)) ELSE s

RECURSIVE RStrip(_)
RStrip(s) ==
    IF s # <<>> /\ s[Len(s)] = " " THEN RStrip(SubSeq(s, 1, Len(s) - 1)) ELSE s

\* str.strip()
Strip(s) == RStrip(LStrip(s))

\* " ".join(parts)
RECURSIVE JoinSpace(_)
JoinSpace(parts) ==
    IF parts = <<>> THEN EmptyText
    ELSE IF Len(parts) = 1 THEN parts[1]
    ELSE parts[1] \o SP \o JoinSpace(Tail(parts))

\* ------------------------------------- adapters (transcription/*.py)
LOCAL_WHISPER == "local_whisper"
OPENAI_WHISPER == "openai_whisper"

\* BaseTranscriber.__init__
NewAdapter(method, model_checkpoint) ==
    [method |-> method, model_checkpoint |-> model_checkpoint,
     current_text |-> EmptyText, last_chunk_text |-> EmptyText]

\* BaseTranscriber.start_stream / stop_stream
start_stream(a) ==
    [a EXCEPT !.current_text = EmptyText, !.last_chunk_text = EmptyText]
stop_stream(a) ==
    [a EXCEPT !.current_text = EmptyText, !.last_chunk_text = EmptyText]

\* What the backend does with one window: the local model returns a list of
\* segments or raises; the remote call returns a text or raises, and the
\* conversion of the window to a WAV file may fail before the call.
LocalOutcomes ==
    {[kind |-> "raise"]} \cup
    {[kind |-> "ok", segments |-> sg] :
        sg \in {<<>>, << <<" ", "a">>, <<"b", " ">> >>, << <<" ", "c">> >>}}
\* A failed conversion fails before the temporary file is created (the
\* samples cannot be scaled) or after (the WAV cannot be written).
OpenAIOutcomes ==
    {[kind |-> "raise"]} \cup
    {[kind |-> "prep_fail", created |-> b] : b \in BOOLEAN} \cup
    {[kind |-> "ok", text |-> t] : t \in {<<" ">>, <<" ", "a", " ">>}}
Outcomes(method) ==
    IF method = LOCAL_WHISPER THEN LocalOutcomes ELSE OpenAIOutcomes

\* `if text.strip(): ... current_text += " " + text.strip()`
MergeTextNoTest(current_text, text) ==
    IF current_text # EmptyText
    THEN current_text \o SP \o Strip(text)
    ELSE Strip(text)
MergeTextNoSeparator(current_text, text) == current_text \o Strip(text)
MergeTextReplace(current_text, text) ==
    IF Strip(text) # EmptyText THEN Strip(text) ELSE current_text
MergeText(current_text, text) ==
    IF Strip(text) # EmptyText
    THEN IF current_text # EmptyText
         THEN current_text \o SP \o Strip(text)
         ELSE Strip(text)
    ELSE current_text

\* The `except Exception` result of LocalWhisperTranscriber.transcribe_chunk.
LocalErrorResultAsAsked(a, is_final) ==
    [text |-> a.current_text, is_final |-> is_final]
LocalErrorResult(a, is_final) == [text |-> a.current_text, is_final |-> TRUE]

\* The `except Exception` result of OpenAIWhisperTranscriber.transcribe_chunk.
OpenAIErrorResult(a, is_final) == [text |-> a.current_text, is_final |-> TRUE]

\* `initial_prompt=self.last_chunk_text` (line 95).
InitialPromptCumulative(a) == a.current_text
InitialPrompt(a) == a.last_chunk_text

\* LocalWhisperTranscriber.transcribe_chunk: the adapter afterwards, the
\* result, and the initial_prompt the model was given.
LocalWhisper_transcribe_chunk(a, out, is_final) ==
    IF out.kind = "raise"
    THEN [adapter |-> a, result |-> LocalErrorResult(a, is_final),
          prompt |-> InitialPrompt(a), temp_file |-> FALSE]
    ELSE LET text == JoinSpace(out.segments)
             merged == MergeText(a.current_text, text)
         IN [adapter |-> [a EXCEPT !.last_chunk_text = Strip(text),
                                   !.current_text = merged],
             result |-> [text |-> merged, is_final |-> is_final],
             prompt |-> InitialPrompt(a), temp_file |-> FALSE]

\* prepare_openai_audio, lines 98-102: whether the temporary file is left
\* behind by the except branch (`if "temp_path" in locals(): unlink`).
LeftIfCreated(created) == created
LeftAfterFailure(created) == FALSE

\* prepare_openai_audio: the path it returns (None when it failed) and
\* whether the temporary file exists when it returns.
NonePath == "None"
prepare_openai_audio(out) ==
    IF out.kind = "prep_fail"
    THEN [temp_path |-> NonePath, exists |-> LeftAfterFailure(out.created)]
    ELSE [temp_path |-> "tmp.wav", exists |-> TRUE]

\* `finally: temp_path.unlink(missing_ok=True)`: the file is gone.
Unlink(exists) == FALSE

\* The result OpenAIWhisperTranscriber.transcribe_chunk returns when
\* prepare_openai_audio gave no file (lines 62-65).
OpenAINoFileResult(a, is_final) ==
    [text |-> a.current_text, is_final |-> is_final]

\* OpenAIWhisperTranscriber.transcribe_chunk (no prompt is passed);
\* temp_file tells whether the temporary file exists when the call returns.
OpenAIWhisper_transcribe_chunk(a, out, is_final) ==
    LET prep == prepare_openai_audio(out) IN
    IF prep.temp_path = NonePath
    THEN [adapter |-> a, result |-> OpenAINoFileResult(a, is_final),
          prompt |-> EmptyText, temp_file |-> prep.exists]
    ELSE IF out.kind = "raise"
    THEN [adapter |-> a, result |-> OpenAIErrorResult(a, is_final),
          prompt |-> EmptyText, temp_file |-> Unlink(prep.exists)]
    ELSE LET merged == MergeText(a.current_text, out.text)
         IN [adapter |-> [a EXCEPT !.last_chunk_text = Strip(out.text),
                                   !.current_text = merged],
             result |-> [text |-> merged, is_final |-> is_final],
             prompt |-> EmptyText, temp_file |-> Unlink(prep.exists)]

\* transcriber.transcribe_chunk(chunk, is_final), by the adapter's class.
transcribe_chunk(a, out, is_final) ==
    IF a.method = LOCAL_WHISPER
    THEN LocalWhisper_transcribe_chunk(a, out, is_final)
    ELSE OpenAIWhisper_transcribe_chunk(a, out, is_final)

\* ------------------------------------------------ AudioBuffer as a value
\* AudioBuffer.__init__, for the buffer a connection owns.
AudioBuffer(chunk_ms, req_overlap_ms, rate) ==
    [samples_per_chunk |-> MsToSamples(chunk_ms, rate),
     overlap_samples |-> MsToSamples(ClampOverlap(req_overlap_ms, chunk_ms), rate),
     buffer |-> <<>>]

\* The while loop of add_samples run to its end: the chunks and the buffer.
RECURSIVE ExtractChunks(_, _, _)
ExtractChunks(buf, spc, ov) ==
    IF LoopCond(Len(buf), spc)
    THEN LET r == ExtractChunks(PySliceFrom(buf, KeepFrom(spc, ov)), spc, ov)
         IN [chunks |-> <<ChunkOf(buf, spc)>> \o r.chunks, buffer |-> r.buffer]
    ELSE [chunks |-> <<>>, buffer |-> buf]

\* The loop never ends when an iteration leaves the buffer as long as it was.
LoopsForever(buf, spc, ov) ==
    /\ LoopCond(Len(buf), spc)
    /\ Len(PySliceFrom(buf, KeepFrom(spc, ov))) >= Len(buf)

\* ----------------------------------------------------- main.py, globals
AllConns == {"c1", "c2"}
Files == {"f1"}
Callers == AllConns \cup Files
NoOwner == "none"

\* should_use_direct_streaming, for the Whisper methods.
should_use_direct_streaming(config) == config.direct_streaming

\* adapt_audio_format leaves the float32 samples of np.frombuffer and of
\* AudioBuffer as they are for the Whisper methods (lines 145-149).
adapt_audio_format(samples, method) == samples

\* The value of `audio_buffer` where websocket_endpoint has not bound it.
Unbound == [samples_per_chunk |-> 0, overlap_samples |-> 0, buffer |-> <<>>]

NoCall ==
    [seq |-> 0, caller |-> "none", op |-> "none", adapter |-> 0,
     window |-> <<>>, arg_final |-> FALSE, outcome |-> "none",
     prompt |-> EmptyText,
     before |-> [current_text |-> EmptyText, last_chunk_text |-> EmptyText],
     after |-> [current_text |-> EmptyText, last_chunk_text |-> EmptyText],
     result |-> [text |-> EmptyText, is_final |-> FALSE],
     locked |-> FALSE, created |-> FALSE, temp_file |-> FALSE]

\* The record of one transcribe_chunk call by `caller` on the active adapter.
ChunkCall(caller, window, is_final, out, r) ==
    [seq |-> last_call[caller].seq + 1, caller |-> caller,
     op |-> "transcribe_chunk",
     adapter |-> transcriber, window |-> window, arg_final |-> is_final,
     outcome |-> out.kind, prompt |-> r.prompt,
     before |-> [current_text |-> adapters[transcriber].current_text,
                 last_chunk_text |-> adapters[transcriber].last_chunk_text],
     after |-> [current_text |-> r.adapter.current_text,
                last_chunk_text |-> r.adapter.last_chunk_text],
     result |-> r.result,
     locked |-> (transcriber_lock = caller),
     created |-> (/\ adapters[transcriber].method = OPENAI_WHISPER
                  /\ (out.kind # "prep_fail" \/ out.created)),
     temp_file |-> r.temp_file]

\* `if result.text: await websocket.send_json({..., "is_final": False})`
SendsPartial(result) == result.text # EmptyText

\* The end-of-stream branches send their result unconditionally.
SendsFinalIfText(result) == result.text # EmptyText
SendsFinal(result) == TRUE

\* Chunk and overlap (ms) and the message sizes (samples) of the sessions.
SessChunking == {<<1, 0>>, <<2, 1>>, <<1, 1>>}
SessFeedSizes == {8, 40}

SessConfigs ==
    {[method |-> m, model_checkpoint |-> "whisper-1",
      chunk_size_ms |-> ck[1], overlap_ms |-> ck[2], direct_streaming |-> FALSE] :
        m \in {LOCAL_WHISPER, OPENAI_WHISPER}, ck \in SessChunking}
    \cup
    {[method |-> m, model_checkpoint |-> "whisper-1",
      chunk_size_ms |-> 1, overlap_ms |-> 0, direct_streaming |-> TRUE] :
        m \in {LOCAL_WHISPER, OPENAI_WHISPER}}

\* TranscriptionConfig's defaults (save_transcript is left out).
DefaultConfig ==
    [method |-> OPENAI_WHISPER, model_checkpoint |-> "whisper-1",
     chunk_size_ms |-> 2000, overlap_ms |-> 200, direct_streaming |-> FALSE]

\* The globals with configuration cfg applied and no request in progress.
SessInitWith(cfg) ==
    /\ active_config = cfg
    /\ adapters = <<NewAdapter(active_config.method, active_config.model_checkpoint)>>
    /\ transcriber = 1
    /\ transcriber_lock = "free"
    /\ conn_pc = [c \in AllConns |-> "closed"]
    /\ use_direct_streaming = [c \in AllConns |-> FALSE]
    /\ audio_buffer = [c \in AllConns |-> Unbound]
    /\ pending = [c \in AllConns |-> <<>>]
    /\ sent = [c \in AllConns |-> <<>>]
    /\ loop_owner = NoOwner
    /\ file_pc = [f \in Files |-> "idle"]
    /\ conn_fed = [c \in AllConns |-> 0]
    /\ eos = [c \in AllConns |-> 0]
    /\ failed = [c \in AllConns |-> FALSE]
    /\ last_call = [k \in Callers |-> NoCall]
    /\ stream_on = [c \in AllConns |-> [started |-> 0, stopped |-> 0]]

\* ------------------------------------------- main.py websocket_endpoint
\* Lines 233-259: accept, start_stream on the active adapter, choose the
\* mode, create the buffer; the handler then awaits the first message.
ws_open(c) ==
    /\ conn_pc[c] = "closed"
    /\ loop_owner = NoOwner
    /\ budget > 0
    /\ adapters' = [adapters EXCEPT ![transcriber] = start_stream(@)]
    /\ use_direct_streaming' =
          [use_direct_streaming EXCEPT ![c] = should_use_direct_streaming(active_config)]
    /\ audio_buffer' =
          [audio_buffer EXCEPT ![c] =
              IF should_use_direct_streaming(active_config)
              THEN Unbound
              ELSE AudioBuffer(active_config.chunk_size_ms,
                               active_config.overlap_ms, WHISPER_SAMPLE_RATE_HZ)]
    /\ conn_pc' = [conn_pc EXCEPT ![c] = "recv"]
    /\ pending' = [pending EXCEPT ![c] = <<>>]
    /\ sent' = [sent EXCEPT ![c] = <<>>]
    /\ budget' = budget - 1
    /\ conn_fed' = [conn_fed EXCEPT ![c] = 0]
    /\ eos' = [eos EXCEPT ![c] = 0]
    /\ failed' = [failed EXCEPT ![c] = FALSE]
    /\ last_call' = [last_call EXCEPT ![c] = NoCall]
    /\ stream_on' = [stream_on EXCEPT ![c] = [started |-> transcriber, stopped |-> 0]]
    /\ UNCHANGED <<active_config, transcriber, transcriber_lock, loop_owner,
                   file_pc>>
    /\ UNCHANGED <<bufVars, gVars>>

\* Lines 270-300: a binary message with n samples. Direct mode hands the
\* samples to the adapter as one window; buffered mode runs add_samples and
\* iterates over its chunks (or never leaves add_samples).
ws_recv_audio(c) ==
    /\ conn_pc[c] = "recv"
    /\ loop_owner = NoOwner
    /\ budget > 0
    /\ \E n \in SessFeedSizes :
          LET samples == NewSamples(conn_fed[c], n)
              ab == audio_buffer[c]
              buf == ab.buffer \o samples
          IN
          /\ conn_fed' = [conn_fed EXCEPT ![c] = @ + n]
          /\ IF use_direct_streaming[c]
             THEN /\ pending' = [pending EXCEPT ![c] = <<samples>>]
                  /\ conn_pc' = [conn_pc EXCEPT ![c] = "chunks"]
                  /\ loop_owner' = c
                  /\ UNCHANGED audio_buffer
             ELSE IF LoopsForever(buf, ab.samples_per_chunk, ab.overlap_samples)
             THEN /\ audio_buffer' = [audio_buffer EXCEPT ![c].buffer = buf]
                  /\ conn_pc' = [conn_pc EXCEPT ![c] = "hung"]
                  /\ loop_owner' = c
                  /\ UNCHANGED pending
             ELSE LET r == ExtractChunks(buf, ab.samples_per_chunk,
                                         ab.overlap_samples)
                  IN /\ audio_buffer' = [audio_buffer EXCEPT ![c].buffer = r.buffer]
                     /\ pending' = [pending EXCEPT ![c] = r.chunks]
                     /\ conn_pc' = [conn_pc EXCEPT ![c] =
                                       IF r.chunks = <<>> THEN "recv" ELSE "chunks"]
                     /\ loop_owner' = IF r.chunks = <<>> THEN NoOwner ELSE c
    /\ budget' = budget - 1
    /\ UNCHANGED <<active_config, transcriber, transcriber_lock, adapters,
                   use_direct_streaming, sent, file_pc, eos, failed,
                   last_call>>
    /\ UNCHANGED <<stream_on, bufVars, gVars>>

\* Lines 283-297 and 303-316: one window goes to the active adapter; the
\* result is sent only if its text is not empty, always with is_final False.
\* The handler can be suspended in the send, not otherwise.
ws_chunk(c) ==
    /\ conn_pc[c] = "chunks"
    /\ loop_owner \in {NoOwner, c}
    /\ pending[c] # <<>>
    /\ \E out \in Outcomes(adapters[transcriber].method) :
          LET window == adapt_audio_format(Head(pending[c]), active_config.method)
              r == transcribe_chunk(adapters[transcriber], out, FALSE)
              more == Tail(pending[c]) # <<>>
          IN
          /\ adapters' = [adapters EXCEPT ![transcriber] = r.adapter]
          /\ last_call' = [last_call EXCEPT ![c] = ChunkCall(c, window, FALSE, out, r)]
          /\ failed' = [failed EXCEPT ![c] = @ \/ out.kind = "raise"]
          /\ sent' = [sent EXCEPT ![c] =
                IF SendsPartial(r.result)
                THEN Append(@, [text |-> r.result.text, is_final |-> FALSE])
                ELSE @]
          /\ pending' = [pending EXCEPT ![c] = Tail(@)]
          /\ conn_pc' = [conn_pc EXCEPT ![c] = IF more THEN "chunks" ELSE "recv"]
          /\ loop_owner' = IF more /\ ~SendsPartial(r.result) THEN c ELSE NoOwner
    /\ UNCHANGED <<active_config, transcriber, transcriber_lock,
                   use_direct_streaming, audio_buffer, file_pc, conn_fed, eos, budget>>
    /\ UNCHANGED <<stream_on, bufVars, gVars>>

\* Lines 321-380: the control message {"isLastChunk": true}. The remainder of
\* the buffer (an empty array when nothing remains, and in direct mode) goes
\* to the adapter with is_final=True and the result is sent with is_final True.
ws_recv_last(c) ==
    /\ conn_pc[c] = "recv"
    /\ loop_owner = NoOwner
    /\ budget > 0
    /\ \E out \in Outcomes(adapters[transcriber].method) :
          LET remaining == IF use_direct_streaming[c] THEN <<>>
                           ELSE audio_buffer[c].buffer
              window == adapt_audio_format(remaining, active_config.method)
              r == transcribe_chunk(adapters[transcriber], out, TRUE)
          IN
          /\ audio_buffer' = [audio_buffer EXCEPT ![c].buffer = <<>>]
          /\ adapters' = [adapters EXCEPT ![transcriber] = r.adapter]
          /\ last_call' = [last_call EXCEPT ![c] = ChunkCall(c, window, TRUE, out, r)]
          /\ failed' = [failed EXCEPT ![c] = @ \/ out.kind = "raise"]
          /\ sent' = [sent EXCEPT ![c] =
                IF SendsFinal(r.result)
                THEN Append(@, [text |-> r.result.text, is_final |-> TRUE])
                ELSE @]
    /\ budget' = budget - 1
    /\ eos' = [eos EXCEPT ![c] = @ + 1]
    /\ UNCHANGED <<active_config, transcriber, transcriber_lock, conn_pc,
                   use_direct_streaming, pending, loop_owner, file_pc, conn_fed>>
    /\ UNCHANGED <<stream_on, bufVars, gVars>>

\* Lines 275-277, 317-319, 326, 382-392: a message that is skipped (empty or
\* malformed bytes, a control message without isLastChunk, invalid JSON).
ws_recv_skip(c) ==
    /\ conn_pc[c] = "recv"
    /\ loop_owner = NoOwner
    /\ budget > 0
    /\ budget' = budget - 1
    /\ UNCHANGED <<active_config, transcriber, transcriber_lock, adapters,
                   conn_pc, use_direct_streaming, audio_buffer, pending, sent,
                   loop_owner, file_pc, conn_fed, eos, failed,
                   last_call>>
    /\ UNCHANGED <<stream_on, bufVars, gVars>>

\* Lines 265-267, 386-388, 396-398: the client disconnects or receive fails;
\* the handler leaves the loop and calls stop_stream on the active adapter.
ws_close(c) ==
    /\ conn_pc[c] = "recv"
    /\ loop_owner = NoOwner
    /\ adapters' = [adapters EXCEPT ![transcriber] = stop_stream(@)]
    /\ stream_on' = [stream_on EXCEPT ![c].stopped = transcriber]
    /\ conn_pc' = [conn_pc EXCEPT ![c] = "closed"]
    /\ UNCHANGED <<active_config, transcriber, transcriber_lock,
                   use_direct_streaming, audio_buffer, pending, sent,
                   loop_owner, file_pc, conn_fed, eos, failed,
                   last_call, budget>>
    /\ UNCHANGED <<bufVars, gVars>>

\* ------------------------------------- main.py transcribe_file, update_config
\* Lines 206-216: the handler takes the lock; without a filename it raises
\* and the lock is released at once, otherwise it awaits file.read().
file_acquire(f) ==
    /\ file_pc[f] \in {"idle", "done"}
    /\ loop_owner = NoOwner
    /\ transcriber_lock = "free"
    /\ budget > 0
    /\ budget' = budget - 1
    /\ \E has_filename \in BOOLEAN :
          IF has_filename
          THEN /\ transcriber_lock' = f
               /\ file_pc' = [file_pc EXCEPT ![f] = "reading"]
          ELSE /\ file_pc' = [file_pc EXCEPT ![f] = "done"]
               /\ UNCHANGED transcriber_lock
    /\ UNCHANGED <<active_config, transcriber, adapters, conn_pc,
                   use_direct_streaming, audio_buffer, pending, sent,
                   loop_owner, conn_fed, eos, failed, last_call>>
    /\ UNCHANGED <<stream_on, bufVars, gVars>>

\* Lines 218-228: transcribe_file on the active adapter (it returns or
\* raises; the Whisper adapters keep no state in it), then the lock is
\* released on the way out.
file_transcribe(f) ==
    /\ file_pc[f] = "reading"
    /\ loop_owner = NoOwner
    /\ \E kind \in {"ok", "raise"} :
          last_call' = [last_call EXCEPT ![f] =
              [NoCall EXCEPT !.seq = last_call[f].seq + 1, !.caller = f,
                             !.op = "transcribe_file", !.adapter = transcriber,
                             !.outcome = kind,
                             !.locked = (transcriber_lock = f)]]
    /\ transcriber_lock' = "free"
    /\ file_pc' = [file_pc EXCEPT ![f] = "done"]
    /\ UNCHANGED <<active_config, transcriber, adapters, conn_pc,
                   use_direct_streaming, audio_buffer, pending, sent,
                   loop_owner, conn_fed, eos, failed, budget>>
    /\ UNCHANGED <<stream_on, bufVars, gVars>>

\* The configurations POST /config is given.
UpdateConfigs ==
    {[method |-> m, model_checkpoint |-> ck, chunk_size_ms |-> 1,
      overlap_ms |-> 0, direct_streaming |-> FALSE] :
        <<m, ck>> \in {<<LOCAL_WHISPER, "base">>, <<OPENAI_WHISPER, "whisper-1">>}}

\* Lines 187-198: under the lock, the configuration is replaced and then the
\* adapter is constructed, which can raise (model download, client setup).
\* The body has no await, so it runs as soon as the lock is free.
update_config ==
    /\ transcriber_lock = "free"
    /\ loop_owner = NoOwner
    /\ budget > 0
    /\ \E cfg \in UpdateConfigs, constructed \in BOOLEAN :
          /\ active_config' = cfg
          /\ IF constructed
             THEN /\ adapters' = Append(adapters,
                                   NewAdapter(cfg.method, cfg.model_checkpoint))
                  /\ transcriber' = Len(adapters) + 1
             ELSE UNCHANGED <<adapters, transcriber>>
    /\ budget' = budget - 1
    /\ UNCHANGED <<transcriber_lock, conn_pc, use_direct_streaming,
                   audio_buffer, pending, sent, loop_owner, file_pc, conn_fed,
                   eos, failed, last_call>>
    /\ UNCHANGED <<stream_on, bufVars, gVars>>

\* ------------------------- GoogleSpeechTranscriber (google_speech.py)
\* The stop signal `None` in the queue; windows are numbered 1, 2, ...
NoneItem == 0

\* What the remote service sends back on the response stream: a response
\* without results (or without alternatives), or the first result's
\* transcript, interim or final.
Responses ==
    {[kind |-> "empty", is_final |-> FALSE, transcript |-> EmptyText]} \cup
    {[kind |-> "result", is_final |-> f, transcript |-> t] :
        f \in BOOLEAN, t \in {<<" ", "u">>}}

\* `if self.final_result: self.final_result += " " + transcript.strip()
\*  else: self.final_result = transcript.strip()`
ReplaceFinal(final, transcript) == Strip(transcript)
AppendFinal(final, transcript) ==
    IF final # EmptyText THEN final \o SP \o Strip(transcript)
    ELSE Strip(transcript)

\* Lines 273-276, with current_text holding final_result as read at line 271
\* and interim as read at line 274.
JoinInterim(current_text, interim) ==
    IF current_text # EmptyText THEN current_text \o SP \o interim
    ELSE interim

\* Lines 271-276 evaluated on one pair (final_result, interim_result).
SnapshotText(final, interim) ==
    IF interim # EmptyText THEN JoinInterim(final, interim) ELSE final

\* The text of the end-of-stream result (line 267).
FinalTextWithInterim(final, interim) == SnapshotText(final, interim)
FinalText(final, interim) == final

\* `while not self.audio_queue.empty()` (lines 340-341), negated.
DrainDoneEarly(q) == Len(q) <= 1
DrainDone(q) == q = <<>>

\* No call in progress / no call returned yet.
NoGCall ==
    [op |-> "none", arg_final |-> FALSE, nonempty |-> FALSE,
     streaming |-> FALSE, enqueued |-> FALSE, live |-> FALSE,
     flagged |-> FALSE, pushed |-> FALSE, joined |-> "no", drained |-> FALSE]
NoGResult ==
    [call |-> NoGCall, text |-> EmptyText, is_final |-> FALSE,
     snapshots |-> {}, finals |-> <<>>, queue_after |-> <<>>,
     streaming_after |-> FALSE]

\* The result of the call in progress as it returns.
GReturn(call, text, is_final, q, streaming_after) ==
    [call |-> call, text |-> text,
     is_final |-> is_final, snapshots |-> g_snapshots, finals |-> g_finals,
     queue_after |-> q, streaming_after |-> streaming_after]

\* The text lines 271-276 give on the worker's state. While the worker is
\* between appending a final transcript and clearing the interim one, its
\* states are the one before the append and the one after the clearing.
WorkerStateTexts ==
    IF streaming_thread.pc = "clear"
    THEN {SnapshotText(streaming_thread.before, interim_result),
          SnapshotText(final_result, EmptyText)}
    ELSE {SnapshotText(final_result, interim_result)}

\* A non-final transcribe_chunk is between its reads.
InSnapshotRead == g_pc \in {"tc_final_result", "tc_test", "tc_join"}

\* GoogleSpeechTranscriber.__init__, and no call made yet.
GoogleNew ==
    /\ is_streaming = FALSE
    /\ audio_queue = <<>>
    /\ interim_result = EmptyText
    /\ final_result = EmptyText
    /\ streaming_thread = [pc |-> "none", transcript |-> EmptyText,
                           before |-> EmptyText, self_stopped |-> FALSE,
                           old |-> "none"]
    /\ generator = "none"
    /\ g_call = NoGCall
    /\ g_pc = "idle"
    /\ g_current_text = EmptyText
    /\ g_result = NoGResult
    /\ g_enqueued = 0
    /\ g_finals = <<>>
    /\ g_snapshots = {}

\* The adapter where the streaming specification is not the subject.
GRest == GoogleNew /\ g_calls = 0 /\ g_responses = 0

\* ---- the caller (the event loop thread)
\* start_stream (lines 288-318). Already streaming, it returns at once and
\* resets nothing. Otherwise the queue is cleared, the results are reset, the
\* flag is set and a thread is started; the client library starts iterating
\* the generator. The thread of the session before may still be alive,
\* waiting for the remote, when stop_stream gave up joining it: it is kept as
\* `old` (its generator has ended, and no earlier thread is left over).
g_start_stream ==
    /\ g_pc = "idle" /\ g_calls > 0
    /\ g_calls' = g_calls - 1
    /\ IF is_streaming
       THEN UNCHANGED <<is_streaming, audio_queue, interim_result,
                        final_result, streaming_thread, generator, g_result,
                        g_enqueued, g_finals, g_snapshots>>
       ELSE /\ \/ streaming_thread.pc \in {"none", "exited"}
               \/ streaming_thread.pc = "wait" /\ streaming_thread.old # "wait"
            /\ generator \in {"none", "done"}
            /\ audio_queue' = <<>>
            /\ final_result' = EmptyText
            /\ interim_result' = EmptyText
            /\ is_streaming' = TRUE
            /\ streaming_thread' = [pc |-> "wait", transcript |-> EmptyText,
                                    before |-> EmptyText,
                                    self_stopped |-> FALSE,
                                    old |-> IF streaming_thread.pc = "wait"
                                            THEN "wait"
                                            ELSE streaming_thread.old]
            /\ generator' = "head"
            /\ g_result' = NoGResult
            /\ g_enqueued' = 0
            /\ g_finals' = <<>>
            /\ g_snapshots' = {}
    /\ UNCHANGED <<g_call, g_pc, g_current_text, g_responses>>
    /\ UNCHANGED <<bufVars, sessVars>>

\* transcribe_chunk, lines 251-260: not streaming, the call returns
\* final_result with is_final as asked; streaming, a non-empty non-final
\* window is put on the queue.
g_transcribe_chunk ==
    /\ g_pc = "idle" /\ g_calls > 0
    /\ \E nonempty \in BOOLEAN, is_final \in BOOLEAN :
          LET put == is_streaming /\ nonempty /\ ~is_final
              call == [NoGCall EXCEPT !.op = "transcribe_chunk",
                                      !.arg_final = is_final,
                                      !.nonempty = nonempty,
                                      !.streaming = is_streaming,
                                      !.enqueued = put]
          IN
          /\ g_call' = call
          /\ g_snapshots' = WorkerStateTexts
          /\ audio_queue' = IF put THEN Append(audio_queue, g_enqueued + 1)
                            ELSE audio_queue
          /\ g_enqueued' = IF put THEN g_enqueued + 1 ELSE g_enqueued
          /\ IF ~is_streaming
             THEN /\ g_result' = GReturn(call, final_result, is_final,
                                         audio_queue, is_streaming)
                  /\ g_pc' = "idle"
             ELSE /\ g_pc' = IF is_final THEN "ss_check" ELSE "tc_final_result"
                  /\ UNCHANGED g_result
    /\ g_calls' = g_calls - 1
    /\ UNCHANGED <<is_streaming, interim_result, final_result,
                   streaming_thread, generator, g_current_text, g_finals,
                   g_responses>>
    /\ UNCHANGED <<bufVars, sessVars>>

\* Line 271: `current_text = self.final_result`.
g_tc_final_result ==
    /\ g_pc = "tc_final_result"
    /\ g_current_text' = final_result
    /\ g_pc' = "tc_test"
    /\ UNCHANGED <<is_streaming, audio_queue, interim_result, final_result,
                   streaming_thread, generator, g_call, g_result, g_enqueued,
                   g_finals, g_snapshots, g_calls, g_responses>>
    /\ UNCHANGED <<bufVars, sessVars>>

\* Line 272: `if self.interim_result:`; without one the call returns
\* current_text (line 278).
g_tc_test ==
    /\ g_pc = "tc_test"
    /\ IF interim_result # EmptyText
       THEN /\ g_pc' = "tc_join"
            /\ UNCHANGED g_result
       ELSE /\ g_pc' = "idle"
            /\ g_result' = GReturn(g_call, g_current_text, FALSE,
                                   audio_queue, is_streaming)
    /\ UNCHANGED <<is_streaming, audio_queue, interim_result, final_result,
                   streaming_thread, generator, g_call, g_current_text,
                   g_enqueued, g_finals, g_snapshots, g_calls, g_responses>>
    /\ UNCHANGED <<bufVars, sessVars>>

\* Lines 273-278: interim_result is read again and joined; the call returns.
g_tc_join ==
    /\ g_pc = "tc_join"
    /\ g_pc' = "idle"
    /\ g_result' = GReturn(g_call, JoinInterim(g_current_text, interim_result),
                           FALSE, audio_queue, is_streaming)
    /\ UNCHANGED <<is_streaming, audio_queue, interim_result, final_result,
                   streaming_thread, generator, g_call, g_current_text,
                   g_enqueued, g_finals, g_snapshots, g_calls, g_responses>>
    /\ UNCHANGED <<bufVars, sessVars>>

\* stop_stream called by the endpoint's finally block.
g_stop_stream ==
    /\ g_pc = "idle" /\ g_calls > 0
    /\ g_call' = [NoGCall EXCEPT !.op = "stop_stream", !.streaming = is_streaming]
    /\ g_pc' = "ss_check"
    /\ g_snapshots' = {}
    /\ g_calls' = g_calls - 1
    /\ UNCHANGED <<is_streaming, audio_queue, interim_result, final_result,
                   streaming_thread, generator, g_current_text, g_result,
                   g_enqueued, g_finals, g_responses>>
    /\ UNCHANGED <<bufVars, sessVars>>

\* stop_stream returns; transcribe_chunk(is_final=True) then returns
\* final_result with is_final True (lines 266-268).
GStopReturns(call, q, streaming_after) ==
    /\ g_pc' = "idle"
    /\ g_result' =
          IF call.op = "transcribe_chunk"
          THEN GReturn(call, FinalText(final_result, interim_result), TRUE,
                       q, streaming_after)
          ELSE GReturn(call, EmptyText, FALSE, q, streaming_after)

\* Lines 323-330: not streaming, stop_stream returns at once; otherwise the
\* flag is cleared.
g_ss_check ==
    /\ g_pc = "ss_check"
    /\ IF ~is_streaming
       THEN /\ GStopReturns(g_call, audio_queue, is_streaming)
            /\ UNCHANGED <<is_streaming, g_call>>
       ELSE /\ is_streaming' = FALSE
            /\ g_call' = [g_call EXCEPT !.live = TRUE, !.flagged = TRUE]
            /\ g_pc' = "ss_put"
            /\ UNCHANGED g_result
    /\ UNCHANGED <<audio_queue, interim_result, final_result,
                   streaming_thread, generator, g_current_text, g_enqueued,
                   g_finals, g_snapshots, g_calls, g_responses>>
    /\ UNCHANGED <<bufVars, sessVars>>

\* Line 333: `self.audio_queue.put(None)`.
g_ss_put ==
    /\ g_pc = "ss_put"
    /\ audio_queue' = Append(audio_queue, NoneItem)
    /\ g_call' = [g_call EXCEPT !.pushed = TRUE]
    /\ g_pc' = "ss_join"
    /\ UNCHANGED <<is_streaming, interim_result, final_result,
                   streaming_thread, generator, g_current_text, g_result,
                   g_enqueued, g_finals, g_snapshots, g_calls, g_responses>>
    /\ UNCHANGED <<bufVars, sessVars>>

\* Lines 336-337: the thread is not alive, or join returns because it exits.
g_ss_join ==
    /\ g_pc = "ss_join"
    /\ streaming_thread.pc \in {"none", "exited"}
    /\ g_call' = [g_call EXCEPT !.joined = "exited"]
    /\ g_pc' = "ss_drain"
    /\ UNCHANGED <<is_streaming, audio_queue, interim_result, final_result,
                   streaming_thread, generator, g_current_text, g_result,
                   g_enqueued, g_finals, g_snapshots, g_calls, g_responses>>
    /\ UNCHANGED <<bufVars, sessVars>>

\* Line 337: join(timeout=2.0) gives up. Two seconds pass only while the
\* thread is blocked waiting for the remote; by then a queue get that was in
\* progress with an item available (at most 0.5 s) has returned.
g_ss_join_timeout ==
    /\ g_pc = "ss_join"
    /\ streaming_thread.pc = "wait"
    /\ ~(generator = "get" /\ audio_queue # <<>>)
    /\ g_call' = [g_call EXCEPT !.joined = "timeout"]
    /\ g_pc' = "ss_drain"
    /\ UNCHANGED <<is_streaming, audio_queue, interim_result, final_result,
                   streaming_thread, generator, g_current_text, g_result,
                   g_enqueued, g_finals, g_snapshots, g_calls, g_responses>>
    /\ UNCHANGED <<bufVars, sessVars>>

\* Line 340: `while not self.audio_queue.empty():`; empty, stop_stream
\* returns.
g_ss_drain ==
    /\ g_pc = "ss_drain"
    /\ IF DrainDone(audio_queue)
       THEN GStopReturns(g_call, audio_queue, is_streaming)
       ELSE g_pc' = "ss_get" /\ UNCHANGED g_result
    /\ UNCHANGED <<is_streaming, audio_queue, interim_result, final_result,
                   streaming_thread, generator, g_call, g_current_text,
                   g_enqueued, g_finals, g_snapshots, g_calls, g_responses>>
    /\ UNCHANGED <<bufVars, sessVars>>

\* Line 341: `self.audio_queue.get()`, which blocks while the queue is empty.
g_ss_get ==
    /\ g_pc = "ss_get"
    /\ audio_queue # <<>>
    /\ audio_queue' = Tail(audio_queue)
    /\ g_call' = [g_call EXCEPT !.drained = TRUE]
    /\ g_pc' = "ss_drain"
    /\ UNCHANGED <<is_streaming, interim_result, final_result,
                   streaming_thread, generator, g_current_text, g_result,
                   g_enqueued, g_finals, g_snapshots, g_calls, g_responses>>
    /\ UNCHANGED <<bufVars, sessVars>>

\* ---- the worker thread (_streaming_thread_func)
\* Lines 199-214: the next response arrives. After the flag was cleared the
\* loop is left (and the finally block runs); a response without results is
\* skipped; otherwise the first result's transcript is taken up.
w_response ==
    /\ streaming_thread.pc = "wait" /\ g_responses > 0
    /\ g_responses' = g_responses - 1
    /\ \E r \in Responses :
          IF ~is_streaming
          THEN /\ streaming_thread' = [streaming_thread EXCEPT !.pc = "exited"]
               /\ UNCHANGED g_finals
          ELSE IF r.kind = "empty"
          THEN UNCHANGED <<streaming_thread, g_finals>>
          ELSE /\ streaming_thread' =
                     [streaming_thread EXCEPT
                         !.pc = IF r.is_final THEN "final" ELSE "interim",
                         !.transcript = r.transcript]
               /\ g_finals' = IF r.is_final THEN Append(g_finals, r.transcript)
                              ELSE g_finals
    /\ UNCHANGED <<is_streaming, audio_queue, interim_result, final_result,
                   generator, g_call, g_pc, g_current_text, g_result,
                   g_enqueued, g_snapshots, g_calls>>
    /\ UNCHANGED <<bufVars, sessVars>>

\* Lines 219-222: the final transcript is appended to final_result.
w_final ==
    /\ streaming_thread.pc = "final"
    /\ final_result' = AppendFinal(final_result, streaming_thread.transcript)
    /\ streaming_thread' = [streaming_thread EXCEPT !.pc = "clear",
                                                    !.before = final_result]
    /\ g_snapshots' =
          IF InSnapshotRead
          THEN g_snapshots \cup {SnapshotText(final_result', EmptyText)}
          ELSE g_snapshots
    /\ UNCHANGED <<is_streaming, audio_queue, interim_result, generator,
                   g_call, g_pc, g_current_text, g_result, g_enqueued,
                   g_finals, g_calls, g_responses>>
    /\ UNCHANGED <<bufVars, sessVars>>

\* Line 223: `self.interim_result = ""`.
w_clear ==
    /\ streaming_thread.pc = "clear"
    /\ interim_result' = EmptyText
    /\ streaming_thread' = [streaming_thread EXCEPT !.pc = "wait",
                                                    !.before = EmptyText,
                                                    !.transcript = EmptyText]
    /\ UNCHANGED <<is_streaming, audio_queue, final_result, generator,
                   g_call, g_pc, g_current_text, g_result, g_enqueued,
                   g_finals, g_snapshots, g_calls, g_responses>>
    /\ UNCHANGED <<bufVars, sessVars>>

\* Line 227: `self.interim_result = transcript.strip()`.
w_interim ==
    /\ streaming_thread.pc = "interim"
    /\ interim_result' = Strip(streaming_thread.transcript)
    /\ streaming_thread' = [streaming_thread EXCEPT !.pc = "wait",
                                                    !.transcript = EmptyText]
    /\ g_snapshots' =
          IF InSnapshotRead
          THEN g_snapshots \cup
                  {SnapshotText(final_result, Strip(streaming_thread.transcript))}
          ELSE g_snapshots
    /\ UNCHANGED <<is_streaming, audio_queue, final_result, generator,
                   g_call, g_pc, g_current_text, g_result, g_enqueued,
                   g_finals, g_calls, g_responses>>
    /\ UNCHANGED <<bufVars, sessVars>>

\* Lines 229-235: the response stream ends or raises; the finally block
\* clears the flag and the thread exits (self_stopped: nobody had asked it
\* to stop).
w_exit ==
    /\ streaming_thread.pc = "wait"
    /\ is_streaming' = FALSE
    /\ streaming_thread' = [streaming_thread EXCEPT !.pc = "exited",
                                                    !.self_stopped = is_streaming]
    /\ UNCHANGED <<audio_queue, interim_result, final_result, generator,
                   g_call, g_pc, g_current_text, g_result, g_enqueued,
                   g_finals, g_snapshots, g_calls, g_responses>>
    /\ UNCHANGED <<bufVars, sessVars>>

\* Lines 199-201 and 229-235 in the thread of the session before: its
\* response stream delivers a response or ends, the loop is left and the
\* finally block clears the flag. (The results it may still write are not
\* followed.)
w_old_exit ==
    /\ streaming_thread.old = "wait"
    /\ is_streaming' = FALSE
    /\ streaming_thread' = [streaming_thread EXCEPT !.old = "exited"]
    /\ UNCHANGED <<audio_queue, interim_result, final_result, generator,
                   g_call, g_pc, g_current_text, g_result, g_enqueued,
                   g_finals, g_snapshots, g_calls, g_responses>>
    /\ UNCHANGED <<bufVars, sessVars>>

\* ---- the request generator (_audio_generator)
\* Line 135: `while self.is_streaming:`.
gen_head ==
    /\ generator = "head"
    /\ generator' = IF is_streaming THEN "get" ELSE "done"
    /\ UNCHANGED <<is_streaming, audio_queue, interim_result, final_result,
                   streaming_thread, g_call, g_pc, g_current_text, g_result,
                   g_enqueued, g_finals, g_snapshots, g_calls, g_responses>>
    /\ UNCHANGED <<bufVars, sessVars>>

\* Lines 138-159: the get returns an item; None ends the generator, a window
\* is yielded to the remote and the loop goes round.
gen_get ==
    /\ generator = "get"
    /\ audio_queue # <<>>
    /\ audio_queue' = Tail(audio_queue)
    /\ generator' = IF Head(audio_queue) = NoneItem THEN "done" ELSE "head"
    /\ UNCHANGED <<is_streaming, interim_result, final_result,
                   streaming_thread, g_call, g_pc, g_current_text, g_result,
                   g_enqueued, g_finals, g_snapshots, g_calls, g_responses>>
    /\ UNCHANGED <<bufVars, sessVars>>

\* Lines 161-163: the get times out on an empty queue (0.5 s).
gen_empty ==
    /\ generator = "get"
    /\ audio_queue = <<>>
    /\ generator' = "head"
    /\ UNCHANGED <<is_streaming, audio_queue, interim_result, final_result,
                   streaming_thread, g_call, g_pc, g_current_text, g_result,
                   g_enqueued, g_finals, g_snapshots, g_calls, g_responses>>
    /\ UNCHANGED <<bufVars, sessVars>>

\* ------------------------------------------------------- specifications
\* The buffer variables where the buffer specification is not the subject.
BufRest ==
    /\ chunk_size_ms = 1 /\ overlap_ms = 0
    /\ sample_rate = WHISPER_SAMPLE_RATE_HZ
    /\ samples_per_chunk = MsToSamples(chunk_size_ms, sample_rate)
    /\ overlap_samples = MsToSamples(overlap_ms, sample_rate)
    /\ buffer = <<>> /\ complete_chunks = <<>> /\ buf_pc = "idle"
    /\ fed = 0 /\ returned = <<>> /\ flushes = 0

\* One AudioBuffer on its own: no request is ever served.
InitBuf ==
    /\ BufInit
    /\ SessInitWith(DefaultConfig)
    /\ budget = 0
    /\ GRest

SpecBuf == InitBuf /\ [][BufNext]_vars

\* ------------------------------------ zero-padding AudioBuffer (audio_utils.py)
\* `int(sample_rate * chunk_size_ms / 1000)`
PadSamplesPerChunk(ms, rate) == (rate * ms) \div 1000

\* `np.pad(self.buffer, (0, padding_size), mode="constant")` with
\* `padding_size = self.samples_per_chunk - len(self.buffer)`: the padding
\* value is 0, which is no position of the stream.
PadChunkNone(buf, spc) == buf
PadChunk(buf, spc) == buf \o [i \in 1..(spc - Len(buf)) |-> 0]

\* AudioBuffer(chunk_duration_ms) as stream_audio_file_realtime builds it:
\* no overlap, an empty buffer.
InitPad ==
    /\ chunk_size_ms \in 1..MaxChunkMs
    /\ sample_rate \in SampleRates
    /\ overlap_ms = 0
    /\ overlap_samples = 0
    /\ samples_per_chunk = PadSamplesPerChunk(chunk_size_ms, sample_rate)
    /\ buffer = <<>>
    /\ complete_chunks = <<>>
    /\ buf_pc = "idle"
    /\ fed = 0
    /\ returned = <<>>
    /\ flushes = 0
    /\ SessInitWith(DefaultConfig)
    /\ budget = 0
    /\ GRest

\* add_samples, lines 65-81, called as stream_audio_file_realtime calls it:
\* one non-empty piece of the file per call, is_end with the last piece and
\* no call after that one.
pad_add_samples_extend ==
    /\ buf_pc = "idle"
    /\ flushes = 0
    /\ \E k \in 1..MaxAudioHalfMs, is_end \in BOOLEAN :
          LET n == k * FeedUnit(sample_rate) IN
          /\ fed + n <= MaxFed(sample_rate)
          /\ buffer' = buffer \o NewSamples(fed, n)
          /\ fed' = fed + n
          /\ buf_pc' = IF is_end THEN "loop_end" ELSE "loop"
    /\ complete_chunks' = <<>>
    /\ UNCHANGED <<chunk_size_ms, overlap_ms, sample_rate, samples_per_chunk,
                   overlap_samples, returned, flushes>>
    /\ UNCHANGED <<sessVars, gVars>>

\* add_samples, lines 82-85: one iteration of the while loop.
pad_add_samples_emit ==
    /\ buf_pc \in {"loop", "loop_end"}
    /\ Len(buffer) >= samples_per_chunk
    /\ complete_chunks' = Append(complete_chunks, SubSeq(buffer, 1, samples_per_chunk))
    /\ buffer' = SubSeq(buffer, samples_per_chunk + 1, Len(buffer))
    /\ UNCHANGED <<chunk_size_ms, overlap_ms, sample_rate, samples_per_chunk,
                   overlap_samples, buf_pc, fed, returned, flushes>>
    /\ UNCHANGED <<sessVars, gVars>>

\* add_samples, lines 89 and 95 with is_end false: return the chunks.
pad_add_samples_return ==
    /\ buf_pc = "loop"
    /\ Len(buffer) < samples_per_chunk
    /\ returned' = returned \o
          [i \in 1..Len(complete_chunks) |->
              [kind |-> "chunk", samples |-> complete_chunks[i]]]
    /\ complete_chunks' = <<>>
    /\ buf_pc' = "idle"
    /\ UNCHANGED <<chunk_size_ms, overlap_ms, sample_rate, samples_per_chunk,
                   overlap_samples, buffer, fed, flushes>>
    /\ UNCHANGED <<sessVars, gVars>>

\* add_samples, lines 89-95 with is_end true: what is left is padded, appended
\* and the buffer emptied; with nothing left only the chunks are returned.
pad_add_samples_end ==
    /\ buf_pc = "loop_end"
    /\ Len(buffer) < samples_per_chunk
    /\ returned' = returned \o
          [i \in 1..Len(complete_chunks) |->
              [kind |-> "chunk", samples |-> complete_chunks[i]]] \o
          (IF Len(buffer) > 0
              THEN << [kind |-> "padded",
                       samples |-> PadChunk(buffer, samples_per_chunk)] >>
              ELSE <<>>)
    /\ buffer' = <<>>
    /\ complete_chunks' = <<>>
    /\ buf_pc' = "idle"
    /\ flushes' = flushes + 1
    /\ UNCHANGED <<chunk_size_ms, overlap_ms, sample_rate, samples_per_chunk,
                   overlap_samples, fed>>
    /\ UNCHANGED <<sessVars, gVars>>

PadNext ==
    \/ pad_add_samples_extend
    \/ pad_add_samples_emit
    \/ pad_add_samples_return
    \/ pad_add_samples_end

SpecPad == InitPad /\ [][PadNext]_vars

Init ==
    /\ BufRest
    /\ \E cfg \in SessConfigs : SessInitWith(cfg)
    /\ budget = MaxEvents
    /\ GRest

ws_step(c) ==
    \/ ws_open(c)
    \/ ws_recv_audio(c)
    \/ ws_chunk(c)
    \/ ws_recv_last(c)
    \/ ws_recv_skip(c)
    \/ ws_close(c)

Next == ws_step("c1")

Spec == Init /\ [][Next]_vars

ConcNext ==
    \/ \E c \in AllConns : ws_step(c)
    \/ \E f \in Files : file_acquire(f)
    \/ \E f \in Files : file_transcribe(f)
    \/ update_config

ConcConfigs ==
    {cfg \in SessConfigs :
        /\ cfg.chunk_size_ms = 1 /\ cfg.overlap_ms = 0
        /\ cfg.direct_streaming = (cfg.method = OPENAI_WHISPER)}

ConcInit ==
    /\ BufRest
    /\ \E cfg \in ConcConfigs : SessInitWith(cfg)
    /\ budget = MaxConcEvents
    /\ GRest

SpecConc == ConcInit /\ [][ConcNext]_vars

\* One session of the streaming adapter.
GoogleCaller ==
    \/ g_start_stream
    \/ g_transcribe_chunk
    \/ g_tc_final_result
    \/ g_tc_test
    \/ g_tc_join
    \/ g_stop_stream
    \/ g_ss_check
    \/ g_ss_put
    \/ g_ss_join
    \/ g_ss_join_timeout
    \/ g_ss_drain
    \/ g_ss_get

GoogleWorker ==
    \/ w_response
    \/ w_final
    \/ w_clear
    \/ w_interim
    \/ w_exit
    \/ w_old_exit

GoogleGenerator ==
    \/ gen_head
    \/ gen_get
    \/ gen_empty

GoogleNext == GoogleCaller \/ GoogleWorker \/ GoogleGenerator

GoogleInit ==
    /\ BufRest
    /\ SessInitWith(DefaultConfig)
    /\ budget = 0
    /\ GoogleNew
    /\ g_calls = MaxGCalls
    /\ g_responses = MaxResponses

SpecGoogle == GoogleInit /\ [][GoogleNext]_vars

\* The steps of a call that has begun: the event loop thread keeps running.
GoogleCallerStep ==
    \/ g_tc_final_result
    \/ g_tc_test
    \/ g_tc_join
    \/ g_ss_check
    \/ g_ss_put
    \/ g_ss_join
    \/ g_ss_join_timeout
    \/ g_ss_drain
    \/ g_ss_get

\* The worker's steps that do not wait for the remote.
GoogleWorkerStep == w_final \/ w_clear \/ w_interim

\* Every thread that can run does run; the remote need never answer and the
\* response stream need never end.
SpecGoogleFair ==
    /\ SpecGoogle
    /\ WF_vars(GoogleCallerStep)
    /\ WF_vars(GoogleWorkerStep)
    /\ WF_vars(GoogleGenerator)

\* ------------------------------------------------ statements on the buffer
\* The windows (by index in `returned`) that contain sample i.
WindowsWith(i) ==
    {w \in 1..Len(returned) :
        \E j \in 1..Len(returned[w].samples) : returned[w].samples[j] = i}

InBuffer(i) == \E j \in 1..Len(buffer) : buffer[j] = i

\* s lists stream positions in strictly increasing order.
Increasing(s) == \A j \in 1..(Len(s) - 1) : s[j] < s[j + 1]

\* Sample i lies in the part of complete window w that the overlap re-includes.
InOverlapTail(i, w) ==
    /\ returned[w].kind = "chunk"
    /\ \E j \in (Len(returned[w].samples) - overlap_samples + 1)
                    ..Len(returned[w].samples) :
          returned[w].samples[j] = i

\* C1: with chunk_ms > overlap_ms >= 0, whenever the buffer is at rest every
\* sample fed so far is in a returned window or still buffered, and every
\* window lists its samples in stream order; so once get_remaining_samples
\* has emptied the buffer, each of the N samples fed is in at least one window.
C1_NoSampleLost ==
    (buf_pc = "idle" /\ overlap_ms < chunk_size_ms) =>
        /\ \A i \in 1..fed : WindowsWith(i) # {} \/ InBuffer(i)
        /\ \A w \in 1..Len(returned) : Increasing(returned[w].samples)
        /\ Increasing(buffer)

C1_Witness ==
    /\ buf_pc = "idle" /\ overlap_ms < chunk_size_ms /\ overlap_samples > 0
    /\ flushes = 1 /\ buffer = <<>> /\ fed = MaxFed(sample_rate)
    /\ Len(returned) >= 3
    /\ returned[Len(returned)].kind = "remaining"
    /\ \A i \in 1..fed : WindowsWith(i) # {}

C2_Body ==
    /\ \A i \in 1..fed :
          /\ Cardinality(WindowsWith(i)) <= 2
          /\ \A w1, w2 \in WindowsWith(i) : w1 - w2 \in {-1, 0, 1}
    /\ \A w \in 1..Len(returned) : \A i \in 1..fed :
          InOverlapTail(i, w) =>
              \/ WindowsWith(i) = {w, w + 1}
              \/ WindowsWith(i) = {w} /\ InBuffer(i)

\* C2 as stated: for every chunk_ms > overlap_ms >= 0 a sample of the overlap
\* is in exactly two windows, which are consecutive, and no sample is in
\* three or more windows.
C2_Original ==
    (buf_pc = "idle" /\ overlap_ms < chunk_size_ms) => C2_Body

\* C2 amended: the same, for the configurations whose overlap is at most half
\* the chunk (2 * overlap_samples <= samples_per_chunk); a sample of the
\* overlap whose next window has not been returned yet is still buffered.
C2_OverlapAtMostHalf ==
    (buf_pc = "idle" /\ overlap_ms < chunk_size_ms
        /\ 2 * overlap_samples <= samples_per_chunk) => C2_Body

C2_Witness ==
    /\ buf_pc = "idle" /\ overlap_samples > 0
    /\ 2 * overlap_samples <= samples_per_chunk
    /\ flushes = 1 /\ buffer = <<>>
    /\ \E w \in 1..Len(returned) : \E i \in 1..fed :
          /\ InOverlapTail(i, w) /\ WindowsWith(i) = {w, w + 1}
          /\ returned[w + 1].kind = "chunk"
    /\ \E w \in 1..Len(returned) : \E i \in 1..fed :
          /\ InOverlapTail(i, w) /\ WindowsWith(i) = {w, w + 1}
          /\ returned[w + 1].kind = "remaining"

\* C3: every emission of add_samples strictly shrinks the buffer, whatever
\* overlap_ms was configured (overlap_ms >= chunk_ms included).
C3_EmissionShrinks ==
    [][add_samples_emit => Len(buffer') < Len(buffer)]_vars

\* C4: every window add_samples returns has exactly samples_per_chunk samples
\* and add_samples leaves fewer than samples_per_chunk samples buffered.
C4_FullWindows ==
    /\ \A w \in 1..Len(returned) :
          returned[w].kind = "chunk" =>
              Len(returned[w].samples) = samples_per_chunk
    /\ buf_pc = "idle" => Len(buffer) < samples_per_chunk

C4_Witness ==
    /\ buf_pc = "idle" /\ flushes = 1 /\ Len(returned) >= 3
    /\ returned[1].kind = "chunk" /\ returned[2].kind = "chunk"
    /\ \E w \in 1..Len(returned) :
          /\ returned[w].kind = "remaining"
          /\ Len(returned[w].samples) \in 1..(samples_per_chunk - 1)
    /\ buffer # <<>>

\* C5: an emission copies the first samples_per_chunk buffered samples into
\* the window, and the buffer afterwards is the last overlap_samples of that
\* window followed by everything that was buffered beyond the window, which
\* is samples_per_chunk - overlap_samples samples shorter.
C5_EmitStep ==
    [][add_samples_emit =>
        LET w == complete_chunks'[Len(complete_chunks')] IN
        /\ Len(complete_chunks') = Len(complete_chunks) + 1
        /\ w = SubSeq(buffer, 1, samples_per_chunk)
        /\ buffer' = SubSeq(w, samples_per_chunk - overlap_samples + 1,
                               samples_per_chunk)
                     \o SubSeq(buffer, samples_per_chunk + 1, Len(buffer))
        /\ Len(buffer') = Len(buffer) - (samples_per_chunk - overlap_samples)
    ]_vars

\* One window emitted from an empty buffer; the overlap and the unconsumed
\* samples are left (the 32000/3200/35000 scenario at 2 ms / 1 ms / 40).
C5_Witness ==
    /\ buf_pc = "loop" /\ Len(complete_chunks) = 1 /\ fed = 40
    /\ samples_per_chunk = 32 /\ overlap_samples = 16
    /\ Len(complete_chunks[1]) = 32
    /\ buffer = [j \in 1..24 |-> 16 + j]

\* C31: get_remaining_samples returns exactly the samples in the buffer, in
\* stream order and fewer than samples_per_chunk of them, and leaves the
\* buffer empty; called on an empty buffer it returns an empty window.
C31_FlushReturnsBuffer ==
    [][get_remaining_samples =>
          /\ returned' = Append(returned, [kind |-> "remaining", samples |-> buffer])
          /\ Increasing(buffer)
          /\ Len(buffer) < samples_per_chunk
          /\ buffer' = <<>>
          /\ buffer = <<>> => returned'[Len(returned')].samples = <<>>
      ]_vars

\* Two calls in a row after add_samples had returned windows: the first
\* returned a partial window, the second an empty one.
C31_Witness ==
    /\ flushes = 2 /\ buf_pc = "idle" /\ buffer = <<>>
    /\ Len(returned) >= 3
    /\ returned[Len(returned)] = [kind |-> "remaining", samples |-> <<>>]
    /\ returned[Len(returned) - 1].kind = "remaining"
    /\ returned[Len(returned) - 1].samples # <<>>
    /\ Len(returned[Len(returned) - 1].samples) < samples_per_chunk
    /\ returned[Len(returned) - 1].samples[Len(returned[Len(returned) - 1].samples)] = fed
    /\ returned[1].kind = "chunk"

\* The samples of a sequence of chunks, one after the other.
RECURSIVE PadConcat(_)
PadConcat(chunks) ==
    IF chunks = <<>> THEN <<>>
    ELSE chunks[1] \o PadConcat(Tail(chunks))

\* C39: in the zero-padding buffer every chunk add_samples returns (and every
\* chunk it has extracted) has exactly samples_per_chunk samples, the one
\* produced with is_end included; the returned chunks, the extracted ones and
\* the buffer, one after the other, are the samples fed, in order, followed
\* only by zeros, fewer than a chunk of them, and by none before the is_end
\* call has returned; after that call the buffer is empty.
C39_PaddedChunksCoverInput ==
    LET out == PadConcat([i \in 1..Len(returned) |-> returned[i].samples])
        all == out \o PadConcat(complete_chunks) \o buffer
    IN
    /\ \A i \in 1..Len(returned) :
          Len(returned[i].samples) = samples_per_chunk
    /\ \A i \in 1..Len(complete_chunks) :
          Len(complete_chunks[i]) = samples_per_chunk
    /\ Len(all) >= fed
    /\ SubSeq(all, 1, fed) = NewSamples(0, fed)
    /\ \A j \in (fed + 1)..Len(all) : all[j] = 0
    /\ Len(all) - fed < samples_per_chunk
    /\ flushes = 0 => Len(all) = fed
    /\ flushes > 0 => (buffer = <<>> /\ buf_pc = "idle" /\ Len(out) = Len(all))
    /\ \A i \in 1..Len(returned) :
          returned[i].kind = "padded" => (i = Len(returned) /\ flushes > 0)

\* The is_end call has returned two full chunks and a third one that holds
\* the last samples of the stream followed by zero padding.
C39_Witness ==
    /\ flushes = 1 /\ buf_pc = "idle" /\ buffer = <<>>
    /\ Len(returned) = 3
    /\ returned[1].kind = "chunk" /\ returned[2].kind = "chunk"
    /\ returned[3].kind = "padded"
    /\ Len(returned[3].samples) = samples_per_chunk
    /\ returned[3].samples[1] = 2 * samples_per_chunk + 1
    /\ returned[3].samples[samples_per_chunk] = 0
    /\ fed > 2 * samples_per_chunk /\ fed < 3 * samples_per_chunk

\* ---------------------------------------------- statements on the sessions
\* The number of messages sent on connection c that are marked final.
FinalsSent(c) ==
    Cardinality({i \in 1..Len(sent[c]) : sent[c][i].is_final})

\* C6: on every connection, the number of is_final=true results sent equals
\* the number of end-of-stream messages handled: each end-of-stream message
\* yields exactly one, whether or not samples remained in the buffer.
C6_OneFinalPerEndOfStream ==
    \A c \in AllConns : FinalsSent(c) = eos[c]

\* Two end-of-stream messages: the first flushed 8 buffered samples, the
\* second found the buffer empty and an empty text, and each was answered.
C6_Witness ==
    /\ eos["c1"] = 2 /\ conn_fed["c1"] = 8 /\ ~use_direct_streaming["c1"]
    /\ audio_buffer["c1"].samples_per_chunk = 16
    /\ last_call["c1"].arg_final /\ last_call["c1"].window = <<>>
    /\ Len(sent["c1"]) = 2
    /\ sent["c1"][1].is_final
    /\ sent["c1"][2] = [text |-> EmptyText, is_final |-> TRUE]

\* C7: when the backend raises inside transcribe_chunk, the call returns the
\* cumulative text as it was before the call with is_final true, and leaves
\* the cumulative text and the priming context as they were.
C7_FailureReturnsLastGood ==
    \A c \in AllConns :
        last_call[c].outcome = "raise" =>
            /\ last_call[c].result.text = last_call[c].before.current_text
            /\ last_call[c].result.is_final
            /\ last_call[c].after = last_call[c].before

C7_Witness ==
    /\ last_call["c1"].outcome = "raise"
    /\ ~last_call["c1"].arg_final
    /\ adapters[last_call["c1"].adapter].method = LOCAL_WHISPER
    /\ last_call["c1"].before.current_text # EmptyText
    /\ last_call["c1"].before.last_chunk_text # EmptyText
    /\ last_call["c1"].result =
          [text |-> last_call["c1"].before.current_text, is_final |-> TRUE]
    /\ adapters[last_call["c1"].adapter].current_text =
          last_call["c1"].before.current_text

\* C8: a failed transcribe_chunk returns the forced-final result with the
\* text merged so far, and after it no further window of that session is
\* transcribed as an incremental update until the session is started again
\* (the end-of-stream dispatch is not counted).
C8_NoChunkAfterFailure ==
    [][\A c \in AllConns :
          /\ (failed[c] /\ failed'[c]) =>
                (last_call'[c] = last_call[c] \/ last_call'[c].arg_final)
          /\ last_call'[c].outcome = "raise" =>
                last_call'[c].result =
                    [text |-> last_call'[c].before.current_text,
                     is_final |-> TRUE]
      ]_vars

\* C9: a step in which the backend raises sends exactly one message, marked
\* is_final=true and carrying the transcript accumulated so far.
C9_ErrorSendsOneFinal ==
    [][\A c \in AllConns :
          (last_call'[c] # last_call[c] /\ last_call'[c].outcome = "raise") =>
              sent'[c] = Append(sent[c],
                            [text |-> last_call'[c].before.current_text,
                             is_final |-> TRUE])
      ]_vars

\* C10: every call into the active adapter (transcribe_file, transcribe_chunk)
\* is made while its caller holds transcriber_lock.
C10_CallsHoldLock ==
    \A k \in Callers : last_call[k].seq > 0 => last_call[k].locked

\* C11: when a stream session has ended, stop_stream was called on the
\* adapter on which the session had called start_stream, and no session ever
\* holds transcriber_lock.
C11_StopOnStartedAdapter ==
    \A c \in AllConns :
        /\ transcriber_lock # c
        /\ (conn_pc[c] = "closed" /\ stream_on[c].started # 0) =>
              stream_on[c].stopped = stream_on[c].started

\* C12: two stream sessions that are open at the same time never run on the
\* same adapter instance.
C12_OneStreamPerAdapter ==
    \A c \in AllConns : \A d \in AllConns \ {c} :
        (conn_pc[c] # "closed" /\ conn_pc[d] # "closed") =>
            stream_on[c].started # stream_on[d].started

\* C13: every transcribe_chunk of a session, and its stop_stream, goes to the
\* adapter instance on which the session called start_stream.
C13_SessionAdapterFixed ==
    \A c \in AllConns :
        /\ last_call[c].seq > 0 => last_call[c].adapter = stream_on[c].started
        /\ stream_on[c].stopped \in {0, stream_on[c].started}

\* Python `x in y` for texts.
IsSubstring(x, y) ==
    \E i \in 0..(Len(y) - Len(x)) : SubSeq(y, i + 1, i + Len(x)) = x

\* C20: a successful transcribe_chunk whose trimmed chunk text is already a
\* substring of the cumulative text leaves the cumulative text unchanged (so
\* merging the same text twice gives what merging it once gives).
C20_MergeSkipsKnownText ==
    \A c \in AllConns :
        (/\ last_call[c].outcome = "ok"
         /\ IsSubstring(last_call[c].after.last_chunk_text,
                        last_call[c].before.current_text)) =>
            last_call[c].after.current_text = last_call[c].before.current_text

\* A transcribe_chunk call in which the backend answered.
Merged(call) == call.op = "transcribe_chunk" /\ call.outcome = "ok"

\* C21: a successful transcribe_chunk whose chunk text is empty after
\* trimming leaves the cumulative text as it was, on either adapter.
C21_EmptyTextKeepsCumulative ==
    \A c \in AllConns :
        (Merged(last_call[c]) /\ last_call[c].after.last_chunk_text = EmptyText)
            => last_call[c].after.current_text = last_call[c].before.current_text

\* The Remote-Batch backend answered a window with blank text when the
\* cumulative text was "a".
C21_Witness ==
    /\ Merged(last_call["c1"])
    /\ adapters[last_call["c1"].adapter].method = OPENAI_WHISPER
    /\ last_call["c1"].after.last_chunk_text = EmptyText
    /\ last_call["c1"].before.current_text = <<"a">>
    /\ adapters[last_call["c1"].adapter].current_text = <<"a">>

\* No space at either end of a text.
NoOuterSpace(t) == t = EmptyText \/ (Head(t) # " " /\ t[Len(t)] # " ")

\* C22: a successful transcribe_chunk whose trimmed chunk text is not empty
\* and not contained in the cumulative text leaves the old cumulative text,
\* one space and the trimmed text (the trimmed text alone when the
\* cumulative text was empty); the result has no space at either end, and
\* the separator has no space next to it.
C22_AppendWithOneSpace ==
    \A c \in AllConns :
        LET old == last_call[c].before.current_text
            new == last_call[c].after.last_chunk_text
            res == last_call[c].after.current_text
        IN (Merged(last_call[c]) /\ new # EmptyText /\ ~IsSubstring(new, old)) =>
              /\ res = IF old = EmptyText THEN new ELSE old \o SP \o new
              /\ NoOuterSpace(res)
              /\ NoOuterSpace(old) /\ NoOuterSpace(new)

\* "c" was merged into "a b".
C22_Witness ==
    /\ Merged(last_call["c1"])
    /\ last_call["c1"].before.current_text = <<"a", " ", "b">>
    /\ last_call["c1"].after.last_chunk_text = <<"c">>
    /\ last_call["c1"].after.current_text = <<"a", " ", "b", " ", "c">>
    /\ last_call["c1"].result.text = <<"a", " ", "b", " ", "c">>

\* x is a prefix of y.
IsPrefix(x, y) == Len(x) <= Len(y) /\ SubSeq(y, 1, Len(x)) = x

\* C23: within a session, the text of each result of transcribe_chunk,
\* successful or failed, begins with the text of the result before it.
C23_ResultsExtendPrevious ==
    [][\A c \in AllConns :
          (/\ last_call'[c] # last_call[c]
           /\ last_call[c].op = "transcribe_chunk"
           /\ last_call'[c].op = "transcribe_chunk") =>
              IsPrefix(last_call[c].result.text, last_call'[c].result.text)
      ]_vars

\* A failed third call returned "a b c", the text the call before it had
\* left.
C23_Witness ==
    /\ last_call["c1"].seq = 3
    /\ last_call["c1"].outcome = "raise"
    /\ last_call["c1"].result.text = <<"a", " ", "b", " ", "c">>
    /\ last_call["c1"].before.current_text = <<"a", " ", "b", " ", "c">>

\* Connection c makes a transcribe_chunk call in the step.
Dispatches(c) ==
    last_call'[c] # last_call[c] /\ last_call'[c].op = "transcribe_chunk"

\* C25: in a buffered session, every window the buffer has emitted goes to
\* the adapter, and the step that dispatches it sends exactly one message to
\* the client, whether or not the resulting text is empty.
C25_OneResultPerWindow ==
    [][\A c \in AllConns :
          (Dispatches(c) /\ ~last_call'[c].arg_final /\ ~use_direct_streaming[c]) =>
              /\ last_call'[c].window = Head(pending[c])
              /\ pending'[c] = Tail(pending[c])
              /\ Len(sent'[c]) = Len(sent[c]) + 1
      ]_vars

\* C26: the windows of a session reach the adapter in the order of their
\* samples, and the k-th call's result is the k-th message sent.
C26_KthResultForKthWindow ==
    [][\A c \in AllConns :
          Dispatches(c) =>
              /\ (/\ last_call[c].op = "transcribe_chunk"
                  /\ last_call[c].window # <<>>
                  /\ last_call'[c].window # <<>>) =>
                    Head(last_call[c].window) < Head(last_call'[c].window)
              /\ Len(sent'[c]) = last_call'[c].seq
              /\ sent'[c][Len(sent'[c])].text = last_call'[c].result.text
      ]_vars

\* C27: when transcribe_chunk has returned, the temporary file of the call
\* does not exist, whichever way the call ended.
C27_TempFileRemoved ==
    \A c \in AllConns :
        last_call[c].op = "transcribe_chunk" => ~last_call[c].temp_file

\* The Remote-Batch adapter had created the file when the writing failed.
C27_Witness ==
    /\ last_call["c1"].outcome = "prep_fail"
    /\ adapters[last_call["c1"].adapter].method = OPENAI_WHISPER
    /\ last_call["c1"].created
    /\ ~last_call["c1"].temp_file

\* C28: a transcribe_chunk whose window could not be converted returns the
\* cumulative text as it was, with is_final true.
C28_NoFileForcesFinal ==
    \A c \in AllConns :
        last_call[c].outcome = "prep_fail" =>
            /\ last_call[c].result.text = last_call[c].before.current_text
            /\ last_call[c].result.is_final

\* The trimmed texts the local model can recognize for a window.
LocalRawTexts ==
    {Strip(JoinSpace(o.segments)) : o \in {x \in LocalOutcomes : x.kind = "ok"}}

\* C33: the prompt the local model is given for a window is the trimmed text
\* recognized for the last window of the session that was transcribed
\* without failure (empty before the first one); a failed call leaves the
\* priming context as it was and a successful one sets it to the trimmed text
\* of its window.
C33_PromptIsPreviousRawText ==
    [][\A c \in AllConns :
          (Dispatches(c) /\ adapters[last_call'[c].adapter].method = LOCAL_WHISPER) =>
              /\ last_call'[c].prompt =
                    IF last_call[c].op = "transcribe_chunk"
                    THEN last_call[c].after.last_chunk_text
                    ELSE EmptyText
              /\ last_call'[c].outcome = "raise" =>
                    last_call'[c].after.last_chunk_text = last_call'[c].prompt
              /\ last_call'[c].outcome = "ok" =>
                    last_call'[c].after.last_chunk_text \in LocalRawTexts
      ]_vars

\* The third call was primed with "c", the text of the first window, after
\* the second window had failed; the cumulative text was "c" too, and the
\* call made it "c a b".
C33_Witness ==
    /\ last_call["c1"].seq = 3
    /\ adapters[last_call["c1"].adapter].method = LOCAL_WHISPER
    /\ failed["c1"]
    /\ last_call["c1"].outcome = "ok"
    /\ last_call["c1"].prompt = <<"c">>
    /\ last_call["c1"].after.last_chunk_text = <<"a", " ", "b">>
    /\ last_call["c1"].after.current_text = <<"c", " ", "a", " ", "b">>

\* C37: once an end-of-stream message of a session has been answered, no
\* step other than a further end-of-stream message or the start of a new
\* session makes an adapter call for the connection, sends it a message or
\* changes the cumulative text.
C37_NoAudioAfterFinal ==
    [][\A c \in AllConns :
          (eos[c] > 0 /\ eos'[c] = eos[c] /\ conn_pc'[c] # "closed") =>
              /\ last_call'[c] = last_call[c]
              /\ sent'[c] = sent[c]
              /\ adapters'[transcriber].current_text =
                    adapters[transcriber].current_text
      ]_vars

\* C38: the active configuration names the method and the model of the
\* active adapter.
C38_ConfigMatchesAdapter ==
    /\ active_config.method = adapters[transcriber].method
    /\ active_config.model_checkpoint = adapters[transcriber].model_checkpoint

\* ------------------------------------ statements on the streaming adapter
\* The last call that returned was a non-final transcribe_chunk that found
\* the adapter streaming.
ReturnedSnapshot ==
    /\ g_result.call.op = "transcribe_chunk"
    /\ ~g_result.call.arg_final
    /\ g_result.call.streaming

\* C14: the text a non-final transcribe_chunk returns is the text of one
\* state of the worker during the call: final_result joined with
\* interim_result as they were together before or after one of the worker's
\* updates, never a mix of two of them.
C14_SnapshotIsConsistent ==
    ReturnedSnapshot => g_result.text \in g_result.snapshots

\* C24: within one session of the streaming adapter, the text a
\* transcribe_chunk returns is never shorter than the text the
\* transcribe_chunk before it returned.
C24_TextLengthNonDecreasing ==
    [][(/\ g_result' # g_result
        /\ g_result.call.op = "transcribe_chunk" /\ g_result.call.streaming
        /\ g_result'.call.op = "transcribe_chunk" /\ g_result'.call.streaming)
          => Len(g_result'.text) >= Len(g_result.text)
      ]_vars

\* C29: whatever the state of the adapter was, when start_stream returns
\* final_result and interim_result are empty, the queue is empty and the
\* adapter is streaming.
C29_StartResets ==
    [][g_start_stream =>
          /\ final_result' = EmptyText
          /\ interim_result' = EmptyText
          /\ audio_queue' = <<>>
          /\ is_streaming'
      ]_vars

\* stop_stream, called on its own, returns in the step.
StopReturns == g_call.op = "stop_stream" /\ g_pc # "idle" /\ g_pc' = "idle"

\* C30: when stop_stream returns, final_result and interim_result are empty
\* and the adapter is not streaming.
C30_StopClears ==
    [][StopReturns =>
          /\ final_result' = EmptyText
          /\ interim_result' = EmptyText
          /\ ~is_streaming'
      ]_vars

C34_WorkerFailureForcesFinal ==
    [][(g_transcribe_chunk /\ streaming_thread.self_stopped /\ ~is_streaming) =>
          /\ g_pc' = "idle"
          /\ g_result'.text = final_result
          /\ g_result'.is_final
      ]_vars

\* C35: while a thread of an earlier session is still alive no other thread
\* of the adapter is, and the streaming flag of a session is never cleared by
\* the thread of an earlier session.
C35_OldWorkerIsInert ==
    [][/\ streaming_thread'.old = "wait" =>
             streaming_thread'.pc \in {"none", "exited"}
       /\ (is_streaming /\ ~is_streaming') =>
             streaming_thread'.old = streaming_thread.old
      ]_vars

\* C36: a non-empty window given to transcribe_chunk with is_final true on a
\* streaming adapter is on the queue before the stop signal is put.
C36_FinalWindowEnqueued ==
    (/\ g_call.op = "transcribe_chunk" /\ g_call.arg_final
     /\ g_call.nonempty /\ g_call.streaming) => g_call.enqueued

\* The interim texts the worker can store.
InterimTexts ==
    {Strip(r.transcript) : r \in {x \in Responses : x.kind = "result"}}

\* C15: a non-final transcribe_chunk on a streaming adapter never waits for
\* the worker (each of its steps can be taken whatever the worker and the
\* generator are doing); with a non-empty window it has enqueued the window,
\* and it returns is_final false and final_result as it read it, alone when
\* there is no interim text and otherwise joined to the interim text by one
\* space.
C15_EnqueueAndReturnJoined ==
    /\ g_pc = "tc_final_result" => ENABLED g_tc_final_result
    /\ g_pc = "tc_test" => ENABLED g_tc_test
    /\ g_pc = "tc_join" => ENABLED g_tc_join
    /\ (ReturnedSnapshot /\ g_pc = "idle") =>
          /\ g_result.call.nonempty => g_result.call.enqueued
          /\ ~g_result.is_final
          /\ \/ g_result.text = g_current_text
             \/ \E i \in InterimTexts \ {EmptyText} :
                   g_result.text = JoinInterim(g_current_text, i)

\* The final utterances as the adapter stores them (`transcript.strip()`).
Utterances(finals) == [k \in 1..Len(finals) |-> Strip(finals[k])]

\* The last call that returned was transcribe_chunk(is_final=True), made
\* after windows had been enqueued.
ReturnedEndOfStream ==
    /\ g_result.call.op = "transcribe_chunk"
    /\ g_result.call.arg_final
    /\ g_enqueued > 0

\* What C16 promises of such a call: is_final true, the text is the final
\* utterances taken up before the stop joined by single spaces (no pending
\* interim text), and the queue is empty when the call returns.
C16_Body ==
    /\ g_result.is_final
    /\ g_result.text = JoinSpace(Utterances(g_result.finals))
    /\ g_result.queue_after = <<>>

C17_StopOrderAndDrain ==
    /\ g_call.pushed => g_call.flagged
    /\ g_call.joined # "no" => g_call.pushed
    /\ g_call.drained => g_call.joined # "no"
    /\ g_result.call.live =>
          /\ g_result.call.joined # "no"
          /\ g_result.queue_after = <<>>
          /\ ~g_result.streaming_after

\* stop_stream has returned after joining the exited worker and draining a
\* queue in which a window was left.
C17_Witness ==
    /\ g_pc = "idle"
    /\ g_result.call.op = "stop_stream" /\ g_result.call.live
    /\ g_result.call.joined = "exited" /\ g_result.call.drained
    /\ g_enqueued > 0
    /\ audio_queue = <<>> /\ ~is_streaming

\* The caller is inside stop_stream.
InStopStream == g_pc \in {"ss_check", "ss_put", "ss_join", "ss_drain", "ss_get"}

\* C18: every stop_stream that is entered returns, whether or not the worker
\* ever exits.
C18_StopTerminates == InStopStream ~> (g_pc = "idle")

\* Of MaxGCalls calls one is start_stream and the others can each feed a
\* window: a capacity one short of the windows that can be fed.
QueueCapacity == MaxGCalls - 2

\* C19: the queue between transcribe_chunk and the worker never holds more
\* items than a fixed capacity, however slow the generator is.
C19_QueueBounded == Len(audio_queue) <= QueueCapacity

=============================================================================
